---- MODULE Spec2Model ----
(***************************************************************************)
(* Model of simulate_population (streamlit_app.py): the generation loop    *)
(* of the turtle population simulation, one action per stage of the loop   *)
(* body, with Python's float arithmetic reproduced on integers.            *)
(*                                                                         *)
(* Rates are kept as rationals <<num, den>>.  For every count the loop can *)
(* hold (0 .. 400000) the double products int(x * (1 - 0.1)),              *)
(* int(x * (1 - 0.2)), int(x * (1 - 0.05)), int(x * 0.85) and              *)
(* int(x * 100 * 0.8) equal the integer quotients used below.  The         *)
(* capacity clamp int(x * (carrying_capacity / total)) is NOT always the   *)
(* exact quotient: when total divides x * carrying_capacity the double     *)
(* product can land one ulp below the integer, and int() then yields one   *)
(* less.  ScaleTrunc reproduces that rounding bit for bit.                 *)
(***************************************************************************)
EXTENDS Integers, Sequences, FiniteSets

\* ---------------------------------------------------------------- bounds
\* Longest temperature schedule explored.
MaxGen == 8

\* ------------------------------------------------------- module constants
initial_population == 500
carrying_capacity == 2000
maturity_age == 4
hatchling_survival_rate == <<8, 10>>
adult_mortality_rate == <<1, 10>>
female_mortality_rate == <<5, 100>>
male_mortality_rate_warm == <<2, 10>>
average_eggs_per_female == 100
initial_males == initial_population \div 2
initial_females == initial_population \div 2
pivotal_temp == 29
\* males <= 5 engages the collapse guard
collapse_threshold == 5
\* the literal 0.85 of the collapse guard
collapse_female_factor == <<85, 100>>

\* Temperatures a schedule may contain (degrees C): far below the pivotal
\* temperature, the pivotal temperature, far above it.
TempSet == {-100, 29, 200}

\* ------------------------------------------------------------ arithmetic
\* int(x * r) for a ratio r = <<num, den>>
TruncMul(x, r) == (x * r[1]) \div r[2]

\* int(x * (1 - rate))
Survive(x, rate) == (x * (rate[2] - rate[1])) \div rate[2]

\* 1 / (1 + exp(-0.5 * (temp - 29.0))) as the double it evaluates to, for the
\* temperatures whose double is a small rational: exactly 0.5 at the pivotal
\* temperature; exactly 1.0 once exp(..) < 2^-53 (temp >= 103); below 1e-16
\* for temp <= -46, where 1 - ratio is exactly 1.0 and int(s * ratio) is 0
\* for every offspring count s.
get_female_ratio(temp) ==
    CASE temp = pivotal_temp -> <<1, 2>>
      [] temp >= 103 -> <<1, 1>>
      [] temp <= -46 -> <<0, 1>>

\* male_ratio = 1 - female_ratio
MaleRatio(r) == <<r[2] - r[1], r[2]>>

RECURSIVE Pow2(_)
Pow2(n) == IF n = 0 THEN 1 ELSE 2 * Pow2(n - 1)

\* a/b > c/d for naturals with b, d > 0, without forming the cross products
RECURSIVE FracGT(_, _, _, _)
FracGT(a, b, c, d) ==
    LET qa == a \div b
        qc == c \div d
        ra == a % b
        rc == c % d
    IN  IF qa # qc THEN qa > qc
        ELSE IF ra = 0 THEN FALSE
        ELSE IF rc = 0 THEN TRUE
        ELSE FracGT(d, rc, b, ra)

\* (r * 2^n) mod t
RECURSIVE DoubleMod(_, _, _)
DoubleMod(r, n, t) == IF n = 0 THEN r % t ELSE DoubleMod((2 * r) % t, n - 1, t)

\* a with 2^-a <= carrying_capacity / total < 2^(1-a), for total > capacity
ScaleExponent(total) ==
    CHOOSE a \in 1..12 : /\ carrying_capacity * Pow2(a) >= total
                         /\ carrying_capacity * Pow2(a - 1) < total

\* floor(log2(q)) for 1 <= q < 4096
Log2Floor(q) == CHOOSE k \in 0..11 : Pow2(k) <= q /\ q < Pow2(k + 1)

\* For total dividing x * carrying_capacity with quotient q >= 1: TRUE iff the
\* double x * (carrying_capacity / total) is below q.  scale is the quotient
\* rounded to 53 bits; when it was rounded down by rem / (total * 2^(52+a)),
\* the product is q minus x times that, and it rounds to a double below q
\* iff that gap exceeds half the spacing of doubles just below q.
RoundsBelow(x, total, q) ==
    LET a == ScaleExponent(total)
        rem == DoubleMod(carrying_capacity, 52 + a, total)
        k == Log2Floor(q)
        e == IF q = Pow2(k) THEN a + k - 1 ELSE a + k
    IN  IF rem = 0 \/ 2 * rem > total THEN FALSE
        ELSE FracGT(2 * rem, total, Pow2(e), x)

\* int(x * scale) with scale = carrying_capacity / total (lines 98-100)
ScaleTrunc(x, total) ==
    LET q == (x * carrying_capacity) \div total
        exact == (x * carrying_capacity) % total = 0
    IN  IF exact /\ x > 0 /\ RoundsBelow(x, total, q) THEN q - 1 ELSE q

\* ------------------------------------------------------------ loop stages
\* faulty variant: both sexes must be gone before the loop stops
ExtinctBothSexes(m, f) == m < 1 /\ f < 1

\* loop exit test (line 55)
Extinct(m, f) == m < 1 \/ f < 1

\* faulty variant: the lag is one generation short
MatureFemalesShortLag(fc, f) ==
    IF Len(fc) >= maturity_age THEN fc[Len(fc) - maturity_age + 2] ELSE f

\* female_counts[-maturity_age] if len(female_counts) >= maturity_age else females
MatureFemales(fc, f) ==
    IF Len(fc) >= maturity_age THEN fc[Len(fc) - maturity_age + 1] ELSE f

\* int(reproducing_pairs * average_eggs_per_female * hatchling_survival_rate)
SurvivingOffspring(mf, m) ==
    LET reproducing_pairs == IF mf < m THEN mf ELSE m
        potential_offspring == reproducing_pairs * average_eggs_per_female
    IN  TruncMul(potential_offspring, hatchling_survival_rate)

\* faulty variant: the guard engages below the threshold only
GuardEngagedStrict(m) == m < collapse_threshold

\* the test of line 75
GuardEngaged(m) == m <= collapse_threshold

\* max(0, n // 2)
HalveOffspring(n) == IF n \div 2 > 0 THEN n \div 2 ELSE 0

\* faulty variant: the female count is cut to 15% instead of by 15%
GuardFemalesKeepLoss(f) == (f * 15) \div 100

\* int(females * 0.85)
GuardFemales(f) == TruncMul(f, collapse_female_factor)

\* faulty variant: the scenario test is inverted
MaleMortalitySwapped(m, cool) ==
    Survive(m, IF cool THEN male_mortality_rate_warm ELSE adult_mortality_rate)

\* line 81
MaleMortality(m, cool) ==
    Survive(m, IF ~cool THEN male_mortality_rate_warm ELSE adult_mortality_rate)

\* faulty variant: the two cooling survival fractions are multiplied before truncating
FemaleMortalityCombined(f, cool) ==
    IF cool THEN (f * 855) \div 1000 ELSE Survive(f, adult_mortality_rate)

\* lines 82-85
FemaleMortality(f, cool) ==
    LET f1 == Survive(f, adult_mortality_rate)
    IN  IF cool THEN Survive(f1, female_mortality_rate) ELSE f1

\* faulty variant: females are kept when the males are gone
ExtinctionRuleKeep(m, f) == f

\* lines 92-93
ExtinctionRule(m, f) == IF m = 0 THEN 0 ELSE f

\* faulty variant: only the female count is scaled
CapacityConstraintFemalesOnly(m, f) ==
    LET total == m + f
    IN  IF total > carrying_capacity
        THEN <<m, ScaleTrunc(f, total)>>
        ELSE <<m, f>>

\* lines 96-100: the <<males, females>> after the capacity constraint
CapacityConstraint(m, f) ==
    LET total == m + f
    IN  IF total > carrying_capacity
        THEN <<ScaleTrunc(m, total), ScaleTrunc(f, total)>>
        ELSE <<m, f>>

\* faulty variant: the slice stops one element earlier
SliceShort(s, n) == SubSeq(s, 1, IF n - 1 < Len(s) THEN n - 1 ELSE Len(s))

\* temp_range[:n]
Slice(s, n) == SubSeq(s, 1, IF n < Len(s) THEN n ELSE Len(s))

\* ----------------------------------------------------------------- state
VARIABLES
    temp_range,        \* the elements of the argument the loop has drawn
    cooling,           \* the scenario flag
    temp,              \* loop variable
    males, females,
    male_counts, female_counts, total_population,
    mature_females, surviving_offspring, new_males, new_females,
    pc,                \* position in simulate_population
    result             \* the returned tuple, <<>> until the return

vars == <<temp_range, cooling, temp, males, females, male_counts,
          female_counts, total_population, mature_females,
          surviving_offspring, new_males, new_females, pc, result>>

locals == <<mature_females, surviving_offspring, new_males, new_females>>
counts == <<male_counts, female_counts, total_population>>

Init ==
    /\ temp_range = <<>>
    /\ cooling \in BOOLEAN
    /\ temp = pivotal_temp
    /\ males = initial_males
    /\ females = initial_females
    /\ male_counts = <<initial_males>>
    /\ female_counts = <<initial_females>>
    /\ total_population = <<initial_males + initial_females>>
    /\ mature_females = 0
    /\ surviving_offspring = 0
    /\ new_males = 0
    /\ new_females = 0
    /\ pc = "iter"
    /\ result = <<>>

\* line 108
Return(tr) == <<Slice(tr, Len(male_counts)), male_counts, female_counts,
                total_population>>

\* The schedule has no further temperature: the loop ends, line 108 returns.
Exhaust ==
    /\ pc = "iter"
    /\ result' = Return(temp_range)
    /\ pc' = "done"
    /\ UNCHANGED <<temp_range, cooling, temp, males, females, counts, locals>>

\* The schedule yields t, the test of line 55 breaks, line 108 returns.
Break(t) ==
    /\ pc = "iter"
    /\ Len(temp_range) < MaxGen
    /\ Extinct(males, females)
    /\ temp_range' = Append(temp_range, t)
    /\ temp' = t
    /\ result' = Return(temp_range')
    /\ pc' = "done"
    /\ UNCHANGED <<cooling, males, females, counts, locals>>

\* The schedule yields t; lines 58-72.
Reproduce(t) ==
    /\ pc = "iter"
    /\ Len(temp_range) < MaxGen
    /\ ~Extinct(males, females)
    /\ temp_range' = Append(temp_range, t)
    /\ temp' = t
    /\ mature_females' = MatureFemales(female_counts, females)
    /\ surviving_offspring' = SurvivingOffspring(mature_females', males)
    /\ new_males' = TruncMul(surviving_offspring', MaleRatio(get_female_ratio(t)))
    /\ new_females' = TruncMul(surviving_offspring', get_female_ratio(t))
    /\ pc' = "guard"
    /\ UNCHANGED <<cooling, males, females, counts, result>>

\* lines 75-78
CollapseGuard ==
    /\ pc = "guard"
    /\ IF GuardEngaged(males)
       THEN /\ new_males' = HalveOffspring(new_males)
            /\ new_females' = HalveOffspring(new_females)
            /\ females' = GuardFemales(females)
       ELSE UNCHANGED <<new_males, new_females, females>>
    /\ pc' = "mortality"
    /\ UNCHANGED <<temp_range, cooling, temp, males, counts, mature_females,
                   surviving_offspring, result>>

\* lines 81-85
Mortality ==
    /\ pc = "mortality"
    /\ males' = MaleMortality(males, cooling)
    /\ females' = FemaleMortality(females, cooling)
    /\ pc' = "newborn"
    /\ UNCHANGED <<temp_range, cooling, temp, counts, locals, result>>

\* lines 88-93
AddNewborns ==
    /\ pc = "newborn"
    /\ males' = males + new_males
    /\ females' = ExtinctionRule(males', females + new_females)
    /\ pc' = "capacity"
    /\ UNCHANGED <<temp_range, cooling, temp, counts, locals, result>>

\* lines 96-106
CapacityAndRecord ==
    /\ pc = "capacity"
    /\ males' = CapacityConstraint(males, females)[1]
    /\ females' = CapacityConstraint(males, females)[2]
    /\ male_counts' = Append(male_counts, males')
    /\ female_counts' = Append(female_counts, females')
    /\ total_population' = Append(total_population, males' + females')
    /\ pc' = "iter"
    /\ UNCHANGED <<temp_range, cooling, temp, locals, result>>

Next ==
    \/ Exhaust
    \/ \E t \in TempSet : Break(t)
    \/ \E t \in TempSet : Reproduce(t)
    \/ CollapseGuard
    \/ Mortality
    \/ AddNewborns
    \/ CapacityAndRecord

Spec == Init /\ [][Next]_vars

\* ------------------------------------------------------------ properties
\* number of recorded states
Recorded == Len(male_counts)

\* the counts the generation in progress (or just recorded at "iter") began with
\* are the last record while pc is inside the loop body
StartMales == male_counts[Recorded]
StartFemales == female_counts[Recorded]

\* the loop stopped at line 56: a temperature was drawn that produced no state
TerminatedEarly == pc = "done" /\ Len(temp_range) >= Recorded

\* C1: every recorded state has males >= 0, females >= 0 and
\* males + females <= carrying_capacity, in both scenarios.
C1_CountsWithinCapacity ==
    \A i \in 1..Recorded :
        /\ male_counts[i] >= 0
        /\ female_counts[i] >= 0
        /\ male_counts[i] + female_counts[i] <= carrying_capacity

\* a generation whose newborns alone exceed the capacity has been recorded
C1_ClampApplied ==
    /\ pc = "iter"
    /\ Recorded >= 2
    /\ new_males + new_females > carrying_capacity
    /\ total_population[Recorded] <= carrying_capacity

\* C2: the four returned sequences have the same length, however the run ends.
C2_EqualLengths ==
    pc = "done" =>
        /\ Len(result[1]) = Len(result[2])
        /\ Len(result[2]) = Len(result[3])
        /\ Len(result[3]) = Len(result[4])

\* C3 as stated: after an early termination the returned temperatures are
\* exactly those of the processed generations, without the temperature at
\* which the termination was detected.
C3_OnlyProcessedTemps ==
    TerminatedEarly => result[1] = SubSeq(temp_range, 1, Recorded - 1)

\* C3 amended: after an early termination no state is recorded for the
\* temperature at which it was detected, but that temperature is returned:
\* the returned temperatures are those of the processed generations followed
\* by it, one per recorded state.
C3_DetectingTempReturned ==
    TerminatedEarly =>
        /\ Len(temp_range) = Recorded
        /\ result[1] = Append(SubSeq(temp_range, 1, Recorded - 1), temp)
        /\ Len(result[1]) = Len(result[2])

\* a run that processed generations and then broke out of the loop
C3_BrokeAfterGenerations ==
    /\ TerminatedEarly
    /\ Recorded >= 2
    /\ result[1][Recorded] = temp

\* C4: only the last recorded state can have males < 1 or females < 1; every
\* earlier recorded state has males >= 1 and females >= 1.
C4_OnlyLastExtinct ==
    \A i \in 1..(Recorded - 1) :
        male_counts[i] >= 1 /\ female_counts[i] >= 1

\* a run stopped by an extinct last record with a temperature left undrawn
C4_StoppedOnExtinction ==
    /\ TerminatedEarly
    /\ Recorded >= 2
    /\ (male_counts[Recorded] < 1 \/ female_counts[Recorded] < 1)

\* C5: the matureFemales of a processed generation is the female count
\* recorded maturity_age records before that generation's own record when the
\* history held at least maturity_age entries, and the female count the
\* generation started with otherwise.
C5_LaggedMatureFemales ==
    (pc = "iter" /\ Recorded >= 2) =>
        mature_females =
            IF Recorded - 1 >= maturity_age
            THEN female_counts[Recorded - maturity_age]
            ELSE female_counts[Recorded - 1]

\* a generation used a lagged count that differs from its starting count
C5_LagLookupUsed ==
    /\ pc = "iter"
    /\ Recorded - 1 >= maturity_age
    /\ mature_females = female_counts[Recorded - maturity_age]
    /\ mature_females # female_counts[Recorded - 1]

\* C6 as stated: in the cooling scenario the mortality stage leaves
\* floor(f * 0.9 * 0.95) females (one truncation) and floor(males * 0.9) males.
C6_SingleTruncation ==
    [][(pc = "mortality" /\ cooling) =>
          /\ females' = (females * 855) \div 1000
          /\ males' = (males * 9) \div 10]_vars

\* C6 amended: in the cooling scenario the mortality stage leaves
\* floor(floor(f * 0.9) * 0.95) females (truncated after each factor) and
\* floor(males * 0.9) males.
C6_TwoTruncations ==
    [][(pc = "mortality" /\ cooling) =>
          /\ females' = (((females * 9) \div 10) * 95) \div 100
          /\ males' = (males * 9) \div 10]_vars

\* cooling mortality has acted, without the collapse guard, on a female count
\* where the two truncations lose an individual
C6_TruncationsDiffer ==
    /\ pc = "newborn"
    /\ cooling
    /\ StartMales > 5
    /\ females = (((StartFemales * 9) \div 10) * 95) \div 100
    /\ females # (StartFemales * 855) \div 1000
    /\ males = (StartMales * 9) \div 10

\* C7: every state recorded after a processed generation with 0 males has
\* 0 females.
C7_NoMalesNoFemales ==
    \A i \in 2..Recorded : male_counts[i] = 0 => female_counts[i] = 0

\* a generation with female newborns was recorded as extinct by the rule
C7_RuleFired ==
    /\ pc = "iter"
    /\ Recorded >= 2
    /\ male_counts[Recorded] = 0
    /\ female_counts[Recorded] = 0
    /\ new_females > 0

C9_FirstGeneration ==
    (~cooling /\ Len(temp_range) >= 1 /\ temp_range[1] = 29) =>
        /\ (Recorded = 1 /\ pc = "newborn") =>
              /\ males = 200 /\ females = 225
              /\ new_males = 10000 /\ new_females = 10000
        /\ (Recorded = 1 /\ pc = "capacity") =>
              males = 10200 /\ females = 10225
        /\ Recorded >= 2 =>
              /\ male_counts[2] = 998
              /\ female_counts[2] = 1001
              /\ total_population[2] = 1999

\* the first generation of that run has been recorded
C9_FirstGenerationRecorded ==
    /\ ~cooling
    /\ Len(temp_range) >= 1
    /\ temp_range[1] = 29
    /\ Recorded >= 2
    /\ male_counts[2] = 998
    /\ female_counts[2] = 1001

\* C10 as stated: mortality runs before the collapse guard, so with
\* males <= 5 the female count before newborns is
\* floor(0.85 * floor(survival * females)).
C10_MortalityBeforeGuard ==
    (pc = "newborn" /\ StartMales <= 5) =>
        females =
            (85 * (IF cooling THEN (StartFemales * 855) \div 1000
                              ELSE (StartFemales * 9) \div 10)) \div 100

\* C10 amended: the collapse guard runs before mortality, so with males <= 5
\* the female count before newborns is the survival fractions applied, each
\* with truncation, to floor(0.85 * females).
C10_GuardBeforeMortality ==
    (pc = "newborn" /\ StartMales <= 5) =>
        females =
            LET g == (StartFemales * 85) \div 100
                a == (g * 9) \div 10
            IN  IF cooling THEN (a * 95) \div 100 ELSE a

\* guard then mortality have acted where the other order gives another count
C10_OrderMatters ==
    /\ pc = "newborn"
    /\ StartMales <= 5
    /\ ~cooling
    /\ females = (((StartFemales * 85) \div 100) * 9) \div 10
    /\ females # (85 * ((StartFemales * 9) \div 10)) \div 100

====
